---- MODULE Spec2Model ----
(***************************************************************************)
(* Model of the chunked translation pipeline of src/main.py:               *)
(* ChunkProcessor (credential selection, page chunking, per-chunk          *)
(* processing with credential rotation), the thread-pool dispatch of       *)
(* process_document and the merge of the per-chunk results; and of the     *)
(* MetadataExtractor of src/main2.py: the retried _make_api_request and    *)
(* the word-wise text splitter _chunk_text.                                *)
(***************************************************************************)
EXTENDS Integers, Sequences, FiniteSets, TLC

\* ------------------------------------------------------------------ bounds
\* Largest page count handed to create_chunks when it is called on its own.
MaxPages == 26
\* Largest credential pool (len(API_KEYS)) explored.
MaxKeys == 3
\* Largest number of blank pages in front of a document's text pages.
MaxBlank == 1

\* Longest text (in characters) handed to _chunk_text.
MaxTextLen == 6
\* Largest chunk_size (character budget) handed to _chunk_text.
MaxBudget == 4

\* ------------------------------------------------------- program constants
\* The literal 8 of create_chunks ("Maximum pages per chunk").
chunk_size == 8

\* stop_after_attempt(3) of the retry decorator of _make_api_request.
stop_after_attempt == 3

\* Numbers of text pages of the documents given to process_document: none,
\* and the smallest that ceil(pages / 8) turns into 1, 2 and 3 chunks.  (How
\* create_chunks cuts every page count up to MaxPages is explored by ChunkSpec.)
DocPages == {0, 1, chunk_size + 1, 2 * chunk_size + 1}

\* ------------------------------------------------------------ text tokens
\* Texts are sequences of integers: a page text is the one-element sequence
\* <<p>> with p >= 1, and the markers below are the literal strings the code
\* inserts.  BLANK is a page whose text.strip() is empty.
BLANK == 0
NL == -1
SEP == -2
HDR == -3
TO_ENGLISH == -4
TO_NEPALI == -5

VARIABLES
    raw,              \* texts of pdf_reader.pages, in document order
    pages,            \* the page list (process_document local / create_chunks argument)
    api_keys,         \* processor.api_keys: sequence of [used_tokens, invalid]
    chunks,           \* outcome of create_chunks: [kind, value]
    mpc,              \* position of the main thread
    submitted,        \* number of tasks handed to the executor so far
    results,          \* process_document's results dict: chunk index -> result
    completed_chunks, \* completed_chunks counter
    progress,         \* values passed to progress_bar.progress, as <<num, den>>
    output,           \* outcome of process_document
    logs,             \* TranslationLogger.logs
    arrival,          \* chunk indices in the order as_completed yielded them (observation only)
    wpc,              \* position of each chunk task: "idle" (not submitted), "select"
                      \*   (in get_next_api_key), "detect", "post", "store", "done"
                      \*   (process_chunk returned), "collected" (future consumed);
                      \*   "raised" would be process_chunk ending by an exception,
                      \*   which its two except clauses leave no path to
    scan,             \* per task: index of the next api_keys entry the comprehension reads
    valid_keys,       \* per task: valid_keys built so far (positions in api_keys)
    api_key,          \* per task: the api_key local of the innermost process_chunk call
    target_lang,      \* per task: target_lang local
    loaded,           \* per task: value of api_key.used_tokens read by "+= 1"
    ret,              \* per task: <<chunk_index, result>> returned by process_chunk, <<>> before
    entry,            \* per task: credentials already invalid when the running
                      \*   get_next_api_key call made its first read (observation only)
    calls,            \* per task: credentials of the remote calls made; recorded
                      \*   only by RejectSpec (observation only)
    rejected,         \* credentials a remote call of which answered 401 (observation only)
    text_in,          \* MetadataExtractor._chunk_text: the text argument
    text_chunk_size,  \* MetadataExtractor._chunk_text: the chunk_size argument
    text_chunks,      \* MetadataExtractor._chunk_text: outcome, [kind, value]
    extractor_keys,   \* MetadataExtractor.api_keys: number of keys
    current_key_index,\* MetadataExtractor.current_key_index
    attempts,         \* attempts of the running _make_api_request call: [key, answer]
    request           \* the _make_api_request call: "idle", "pending", "return", "RetryError"

vars == <<raw, pages, api_keys, chunks, mpc, submitted, results, completed_chunks,
          progress, output, logs, arrival, wpc, scan, valid_keys, api_key, target_lang,
          loaded, ret, entry, calls, rejected, text_in, text_chunk_size, text_chunks,
          extractor_keys, current_key_index, attempts, request>>

mainVars == <<raw, pages, api_keys, chunks, mpc, submitted, results,
              completed_chunks, progress, output, logs, arrival>>
taskVars == <<wpc, scan, valid_keys, api_key, target_lang, loaded, ret, entry, calls>>
extractorVars == <<text_in, text_chunk_size, text_chunks, extractor_keys,
                   current_key_index, attempts, request>>

\* --------------------------------------------------------------- helpers
Min(a, b) == IF a <= b THEN a ELSE b

\* math.ceil(a / b) for a >= 0, b > 0
Ceil(a, b) == (a + b - 1) \div b

\* Python slice s[i:j] (0-based, clipped at the end of s)
Slice(s, i, j) == SubSeq(s, i + 1, Min(j, Len(s)))

\* The task slots: one per possible chunk index.
Tasks == 0 .. (MaxKeys - 1)

\* [APIKey(key) for key in API_KEYS]
NewPool(n) == [k \in 1..n |-> [used_tokens |-> 0, invalid |-> FALSE]]

\* A document of n distinct non-blank page texts.
TextPages(n) == [i \in 1..n |-> i]

\* ----------------------------------------------------------- create_chunks
\* for i in range(0, total_pages, pages_per_chunk): the loop from offset i on
RECURSIVE ChunkLoop(_, _, _, _)
ChunkLoop(pgs, i, per, acc) ==
    IF i >= Len(pgs) THEN acc
    ELSE LET chunk == Slice(pgs, i, i + per)
         IN  ChunkLoop(pgs, i + per, per,
                       IF chunk # <<>> THEN Append(acc, chunk) ELSE acc)

\* Faulty variant of NumChunks: the number of chunks not capped by the pool size
NumChunksUncapped(total_pages, nkeys) == Ceil(total_pages, chunk_size)

NumChunks(total_pages, nkeys) == Min(nkeys, Ceil(total_pages, chunk_size))

\* Faulty variant of PagesPerChunk: pages_per_chunk rounded down instead of up
PagesPerChunkFloor(total_pages, num_chunks) == total_pages \div num_chunks

PagesPerChunk(total_pages, num_chunks) == Ceil(total_pages, num_chunks)

\* The outcome of create_chunks(pages) on a pool of nkeys credentials:
\* a returned list of chunks, or the ZeroDivisionError of line 48.
create_chunks(pgs, nkeys) ==
    LET total_pages == Len(pgs)
        num_chunks == NumChunks(total_pages, nkeys)
    IN  IF num_chunks = 0
        THEN [kind |-> "raise", value |-> <<>>]
        ELSE [kind |-> "return",
              value |-> ChunkLoop(pgs, 0, PagesPerChunk(total_pages, num_chunks), <<>>)]

\* No MetadataExtractor (src/main2.py) takes part in a run of src/main.py.
ExtractorIdle ==
    /\ text_in = <<>>
    /\ text_chunk_size = 0
    /\ text_chunks = [kind |-> "none", value |-> <<>>]
    /\ extractor_keys = 0
    /\ current_key_index = 0
    /\ attempts = <<>>
    /\ request = "idle"

\* ------------------------------------------------ ChunkSpec: the chunker alone
\* create_chunks called directly on any page list of up to MaxPages pages by
\* a processor holding 1..MaxKeys credentials.
IdleTasks ==
    /\ wpc = [w \in Tasks |-> "idle"]
    /\ scan = [w \in Tasks |-> 0]
    /\ valid_keys = [w \in Tasks |-> <<>>]
    /\ api_key = [w \in Tasks |-> 0]
    /\ target_lang = [w \in Tasks |-> "none"]
    /\ loaded = [w \in Tasks |-> 0]
    /\ ret = [w \in Tasks |-> <<>>]
    /\ entry = [w \in Tasks |-> {}]
    /\ calls = [w \in Tasks |-> <<>>]

ChunkInit ==
    /\ \E n \in 0..MaxPages : pages = TextPages(n)
    /\ \E k \in 1..MaxKeys : api_keys = NewPool(k)
    /\ raw = <<>>
    /\ chunks = [kind |-> "none", value |-> <<>>]
    /\ mpc = "call"
    /\ submitted = 0
    /\ results = <<>>
    /\ completed_chunks = 0
    /\ progress = <<>>
    /\ output = [kind |-> "none"]
    /\ logs = <<>>
    /\ arrival = <<>>
    /\ IdleTasks
    /\ rejected = {}
    /\ ExtractorIdle

CallCreateChunks ==
    /\ mpc = "call"
    /\ chunks' = create_chunks(pages, Len(api_keys))
    /\ mpc' = "called"
    /\ UNCHANGED <<raw, pages, api_keys, submitted, results, completed_chunks,
                   progress, output, logs, arrival>>
    /\ UNCHANGED taskVars
    /\ UNCHANGED <<rejected, extractorVars>>

ChunkNext == CallCreateChunks

ChunkSpec == ChunkInit /\ [][ChunkNext]_vars

\* Concatenation of a sequence of sequences.
RECURSIVE Flatten(_)
Flatten(ss) == IF ss = <<>> THEN <<>> ELSE Head(ss) \o Flatten(Tail(ss))

\* C1: for a nonempty page list and a pool of at least one credential,
\* create_chunks returns chunks that are all nonempty, whose concatenation in
\* order is the page list itself, and whose number is at most the number of
\* credentials and at most ceil(pageCount / 8).
C1_Partition ==
    (mpc = "called" /\ pages # <<>>) =>
        /\ chunks.kind = "return"
        /\ \A j \in 1..Len(chunks.value) : chunks.value[j] # <<>>
        /\ Flatten(chunks.value) = pages
        /\ Len(chunks.value) <= Len(api_keys)
        /\ 8 * (Len(chunks.value) - 1) < Len(pages)

\* A 17-page list on 3 credentials has been cut into 3 chunks, the last one shorter.
C1_Witness ==
    /\ mpc = "called"
    /\ Len(pages) = 17
    /\ Len(api_keys) = 3
    /\ chunks.kind = "return"
    /\ Len(chunks.value) = 3
    /\ Len(chunks.value[3]) < Len(chunks.value[1])

\* C2: create_chunks([]) returns the empty chunk list as a normal result.
C2_EmptyReturnsEmpty ==
    (mpc = "called" /\ pages = <<>>) =>
        (chunks.kind = "return" /\ chunks.value = <<>>)

\* C3: no chunk returned by create_chunks holds more than 8 pages.
C3_ChunkWithinPageBudget ==
    (mpc = "called" /\ chunks.kind = "return") =>
        \A j \in 1..Len(chunks.value) : Len(chunks.value[j]) <= 8


\* ------------------------------------------------------------------ texts
\* sep.join(parts) for a sequence of texts
RECURSIVE Join(_, _)
Join(sep, parts) ==
    IF parts = <<>> THEN <<>>
    ELSE IF Len(parts) = 1 THEN parts[1]
    ELSE parts[1] \o sep \o Join(sep, Tail(parts))

\* "\n".join(chunk): combined_text of a chunk of pages
CombinedText(chunk) == Join(<<NL>>, [j \in 1..Len(chunk) |-> <<chunk[j]>>])

\* The completion the remote model sends back for a translation request:
\* the text, rendered in the target language.
Completion(text, lang) ==
    <<IF lang = "English" THEN TO_ENGLISH ELSE TO_NEPALI>> \o text

\* f"=== Chunk {i+1} ===\n{text}"
Section(i, text) == <<HDR, i + 1, NL>> \o text

\* The error result of both except branches of process_chunk.
ErrorResult(e) == [original |-> <<>>, translated |-> <<>>, status |-> "error", error |-> e]

SuccessResult(text, translated) ==
    [original |-> text, translated |-> translated, status |-> "success"]

\* --------------------------------------------------------- credential pool
\* Faulty variant of PickKey: the first valid key, whatever the chunk index
PickKeyFirst(vk, chunk_index) == vk[1]

\* valid_keys[chunk_index % len(valid_keys)], valid_keys nonempty
PickKey(vk, chunk_index) == vk[(chunk_index % Len(vk)) + 1]

InvalidSet == {k \in 1..Len(api_keys) : api_keys[k].invalid}

\* ------------------------------------------------------- process_document
Init ==
    /\ \E n \in DocPages, b \in 0..MaxBlank :
           raw = [j \in 1..b |-> BLANK] \o [j \in 1..n |-> j]
    /\ \E k \in 1..MaxKeys : api_keys = NewPool(k)
    /\ pages = <<>>
    /\ chunks = [kind |-> "none", value |-> <<>>]
    /\ mpc = "extract"
    /\ submitted = 0
    /\ results = <<>>
    /\ completed_chunks = 0
    /\ progress = <<>>
    /\ output = [kind |-> "none"]
    /\ logs = <<>>
    /\ arrival = <<>>
    /\ IdleTasks
    /\ rejected = {}
    /\ ExtractorIdle

\* for page in pdf_reader.pages: keep the text unless text.strip() is empty
ExtractPage ==
    /\ mpc = "extract"
    /\ raw # <<>>
    /\ pages' = IF Head(raw) # BLANK THEN Append(pages, Head(raw)) ELSE pages
    /\ raw' = Tail(raw)
    /\ UNCHANGED <<api_keys, chunks, mpc, submitted, results, completed_chunks,
                   progress, output, logs, arrival>>
    /\ UNCHANGED taskVars
    /\ UNCHANGED <<rejected, extractorVars>>

\* if not pages: return None; else create_chunks, results = {}, st.progress(0)
StartRun ==
    /\ mpc = "extract"
    /\ raw = <<>>
    /\ IF pages = <<>>
       THEN /\ output' = [kind |-> "None"]
            /\ mpc' = "done"
            /\ UNCHANGED chunks
       ELSE LET c == create_chunks(pages, Len(api_keys))
            IN  /\ chunks' = c
                /\ IF c.kind = "raise"
                   THEN output' = [kind |-> "None"] /\ mpc' = "done"
                   ELSE UNCHANGED output /\ mpc' = "submit"
    /\ UNCHANGED <<raw, pages, api_keys, submitted, results, completed_chunks,
                   progress, logs, arrival>>
    /\ UNCHANGED taskVars
    /\ UNCHANGED <<rejected, extractorVars>>

\* executor.submit(processor.process_chunk, chunk, i) for the next (i, chunk)
\* of the dict comprehension; after the last one the as_completed loop begins
Submit ==
    /\ mpc = "submit"
    /\ submitted < Len(chunks.value)
    /\ wpc' = [wpc EXCEPT ![submitted] = "select"]
    /\ submitted' = submitted + 1
    /\ mpc' = IF submitted + 1 = Len(chunks.value) THEN "collect" ELSE "submit"
    /\ UNCHANGED <<raw, pages, api_keys, chunks, results, completed_chunks,
                   progress, output, logs, arrival>>
    /\ UNCHANGED <<scan, valid_keys, api_key, target_lang, loaded, ret, entry, calls>>
    /\ UNCHANGED <<rejected, extractorVars>>

\* Faulty variant of Collect: progress reported before completed_chunks is
\* incremented
CollectProgressFirst(w) ==
    /\ mpc = "collect"
    /\ wpc[w] = "done"
    /\ results' = (ret[w][1] :> ret[w][2]) @@ results
    /\ wpc' = [wpc EXCEPT ![w] = "collected"]
    /\ completed_chunks' = completed_chunks + 1
    /\ progress' = Append(progress, <<completed_chunks, Len(chunks.value)>>)
    /\ arrival' = Append(arrival, ret[w][1])
    /\ UNCHANGED <<raw, pages, api_keys, chunks, mpc, submitted, output, logs>>
    /\ UNCHANGED <<scan, valid_keys, api_key, target_lang, loaded, ret, entry, calls>>
    /\ UNCHANGED <<rejected, extractorVars>>

\* one iteration of "for future in as_completed(future_to_chunk)"
Collect(w) ==
    /\ mpc = "collect"
    /\ wpc[w] = "done"
    /\ results' = (ret[w][1] :> ret[w][2]) @@ results
    /\ wpc' = [wpc EXCEPT ![w] = "collected"]
    /\ completed_chunks' = completed_chunks + 1
    /\ progress' = Append(progress, <<completed_chunks + 1, Len(chunks.value)>>)
    /\ arrival' = Append(arrival, ret[w][1])
    /\ UNCHANGED <<raw, pages, api_keys, chunks, mpc, submitted, output, logs>>
    /\ UNCHANGED <<scan, valid_keys, api_key, target_lang, loaded, ret, entry, calls>>
    /\ UNCHANGED <<rejected, extractorVars>>

\* Faulty variant of MergeLoop: the merge loop without its status test
RECURSIVE MergeLoopAll(_, _, _, _)
MergeLoopAll(res, i, n, field) ==
    IF i >= n THEN <<>>
    ELSE <<Section(i, res[i][field])>> \o MergeLoopAll(res, i + 1, n, field)

\* The sections of the chunks whose result is "success", in the order of
\* range(len(chunks)).
RECURSIVE MergeLoop(_, _, _, _)
MergeLoop(res, i, n, field) ==
    IF i >= n THEN <<>>
    ELSE (IF res[i].status = "success" THEN <<Section(i, res[i][field])>> ELSE <<>>)
         \o MergeLoop(res, i + 1, n, field)

\* The value process_document returns after the executor block: the merged
\* documents, or None when results[i] is missing (KeyError, caught at line 168).
Merged(res, n) ==
    IF \E i \in 0..(n - 1) : i \notin DOMAIN res
    THEN [kind |-> "None"]
    ELSE [kind |-> "dict",
          original |-> Join(<<SEP>>, MergeLoop(res, 0, n, "original")),
          translated |-> Join(<<SEP>>, MergeLoop(res, 0, n, "translated"))]

\* all futures have been consumed: leave the with block, merge and return
Merge ==
    /\ mpc = "collect"
    /\ \A w \in 0..(Len(chunks.value) - 1) : wpc[w] = "collected"
    /\ output' = Merged(results, Len(chunks.value))
    /\ mpc' = "done"
    /\ UNCHANGED <<raw, pages, api_keys, chunks, submitted, results,
                   completed_chunks, progress, logs, arrival>>
    /\ UNCHANGED taskVars
    /\ UNCHANGED <<rejected, extractorVars>>

\* ------------------------------------------------------------ process_chunk
\* Faulty variant of Return: process_chunk returning index 0 for every chunk
ReturnIndexZero(w, result) ==
    /\ ret' = [ret EXCEPT ![w] = <<0, result>>]
    /\ wpc' = [wpc EXCEPT ![w] = "done"]
    /\ scan' = [scan EXCEPT ![w] = 0]
    /\ valid_keys' = [valid_keys EXCEPT ![w] = <<>>]
    /\ api_key' = [api_key EXCEPT ![w] = 0]
    /\ target_lang' = [target_lang EXCEPT ![w] = "none"]
    /\ loaded' = [loaded EXCEPT ![w] = 0]
    /\ entry' = [entry EXCEPT ![w] = {}]

\* The task of chunk w returns the pair (chunk_index, result); the frames of
\* process_chunk and their locals are gone.
Return(w, result) ==
    /\ ret' = [ret EXCEPT ![w] = <<w, result>>]
    /\ wpc' = [wpc EXCEPT ![w] = "done"]
    /\ scan' = [scan EXCEPT ![w] = 0]
    /\ valid_keys' = [valid_keys EXCEPT ![w] = <<>>]
    /\ api_key' = [api_key EXCEPT ![w] = 0]
    /\ target_lang' = [target_lang EXCEPT ![w] = "none"]
    /\ loaded' = [loaded EXCEPT ![w] = 0]
    /\ entry' = [entry EXCEPT ![w] = {}]

\* Faulty variant of KeepKey: the comprehension without its "if not key.invalid" filter
KeepKeyAlways(k) == TRUE

\* "if not key.invalid" for the key at position k of api_keys
KeepKey(k) == ~api_keys[k].invalid

\* get_next_api_key, one step of the comprehension:
\* "key for key in self.api_keys if not key.invalid" reads the next key's flag
GetNextApiKeyRead(w) ==
    /\ wpc[w] = "select"
    /\ scan[w] < Len(api_keys)
    /\ scan' = [scan EXCEPT ![w] = scan[w] + 1]
    /\ valid_keys' = [valid_keys EXCEPT ![w] =
           IF KeepKey(scan[w] + 1) THEN Append(@, scan[w] + 1) ELSE @]
    /\ entry' = [entry EXCEPT ![w] = IF scan[w] = 0 THEN InvalidSet ELSE @]
    /\ UNCHANGED mainVars
    /\ UNCHANGED <<wpc, api_key, target_lang, loaded, ret, calls>>
    /\ UNCHANGED <<rejected, extractorVars>>

\* get_next_api_key, after the comprehension: raise RuntimeError (caught by
\* "except Exception" of process_chunk) or return valid_keys[chunk_index % len]
GetNextApiKeyReturn(w) ==
    /\ wpc[w] = "select"
    /\ scan[w] = Len(api_keys)
    /\ IF valid_keys[w] = <<>>
       THEN Return(w, ErrorResult("No valid API keys available."))
       ELSE /\ api_key' = [api_key EXCEPT ![w] = PickKey(valid_keys[w], w)]
            /\ wpc' = [wpc EXCEPT ![w] = "detect"]
            /\ scan' = [scan EXCEPT ![w] = 0]
            /\ valid_keys' = [valid_keys EXCEPT ![w] = <<>>]
            /\ entry' = [entry EXCEPT ![w] = {}]
            /\ UNCHANGED <<target_lang, loaded, ret>>
    /\ UNCHANGED mainVars
    /\ UNCHANGED calls
    /\ UNCHANGED <<rejected, extractorVars>>

\* What langdetect.detect can do on a text: a language code, or LangDetectException.
Detections == {"ne", "en", "LangDetectException"}

\* target_lang = "English" if source_lang == "ne" else "Nepali"
TargetLang(source_lang) == IF source_lang = "ne" THEN "English" ELSE "Nepali"

\* combined_text = "\n".join(chunk); source_lang = detect(combined_text); target_lang
Detect(w) ==
    /\ wpc[w] = "detect"
    /\ \E d \in Detections :
         IF d = "LangDetectException"
         THEN Return(w, ErrorResult(d))
         ELSE /\ target_lang' = [target_lang EXCEPT ![w] = TargetLang(d)]
              /\ wpc' = [wpc EXCEPT ![w] = "post"]
              /\ UNCHANGED <<scan, valid_keys, api_key, loaded, ret, entry>>
    /\ UNCHANGED mainVars
    /\ UNCHANGED calls
    /\ UNCHANGED <<rejected, extractorVars>>

\* What requests.post + raise_for_status can do: an HTTP status, or a
\* transport failure (ConnectionError, Timeout: not an HTTPError).
Answers == {"200", "401", "403", "500", "ConnectionError"}

\* Faulty variant of PostAnswer: the HTTPError handler taking 403 like 401
PostAnswerForbiddenToo(w, a) ==
    /\ wpc[w] = "post"
    /\ CASE a = "200" ->
              /\ loaded' = [loaded EXCEPT ![w] = api_keys[api_key[w]].used_tokens]
              /\ wpc' = [wpc EXCEPT ![w] = "store"]
              /\ UNCHANGED <<api_keys, scan, valid_keys, api_key, target_lang, ret, entry>>
              /\ UNCHANGED rejected
         [] a \in {"401", "403"} ->
              /\ api_keys' = [api_keys EXCEPT ![api_key[w]].invalid = TRUE]
              /\ rejected' = IF a = "401" THEN rejected \cup {api_key[w]} ELSE rejected
              /\ wpc' = [wpc EXCEPT ![w] = "select"]
              /\ api_key' = [api_key EXCEPT ![w] = 0]
              /\ target_lang' = [target_lang EXCEPT ![w] = "none"]
              /\ UNCHANGED <<scan, valid_keys, loaded, ret, entry>>
         [] OTHER ->
              /\ Return(w, ErrorResult(a))
              /\ UNCHANGED <<api_keys, rejected>>
    /\ UNCHANGED <<raw, pages, chunks, mpc, submitted, results, completed_chunks,
                   progress, output, logs, arrival>>
    /\ UNCHANGED extractorVars

\* translate_text up to the read of "api_key.used_tokens += 1" when the
\* endpoint answers a, and the handlers of process_chunk for what it raises
PostAnswer(w, a) ==
    /\ wpc[w] = "post"
    /\ CASE a = "200" ->
              /\ loaded' = [loaded EXCEPT ![w] = api_keys[api_key[w]].used_tokens]
              /\ wpc' = [wpc EXCEPT ![w] = "store"]
              /\ UNCHANGED <<api_keys, scan, valid_keys, api_key, target_lang, ret, entry>>
              /\ UNCHANGED rejected
         [] a = "401" ->
              /\ api_keys' = [api_keys EXCEPT ![api_key[w]].invalid = TRUE]
              /\ rejected' = rejected \cup {api_key[w]}
              /\ wpc' = [wpc EXCEPT ![w] = "select"]
              /\ api_key' = [api_key EXCEPT ![w] = 0]
              /\ target_lang' = [target_lang EXCEPT ![w] = "none"]
              /\ UNCHANGED <<scan, valid_keys, loaded, ret, entry>>
         [] OTHER ->
              /\ Return(w, ErrorResult(a))
              /\ UNCHANGED <<api_keys, rejected>>
    /\ UNCHANGED <<raw, pages, chunks, mpc, submitted, results, completed_chunks,
                   progress, output, logs, arrival>>
    /\ UNCHANGED extractorVars

Post(w) ==
    /\ \E a \in Answers : PostAnswer(w, a)
    /\ UNCHANGED calls

\* The shapes a 2xx response body can have.
Bodies == {"completion", "malformed"}

\* the write of "api_key.used_tokens += 1", then
\* response.json()['choices'][0]['message']['content'] and the return
Store(w) ==
    /\ wpc[w] = "store"
    /\ api_keys' = [api_keys EXCEPT ![api_key[w]].used_tokens = loaded[w] + 1]
    /\ \E b \in Bodies :
         IF b = "completion"
         THEN LET text == CombinedText(chunks.value[w + 1])
              IN  Return(w, SuccessResult(text, Completion(text, target_lang[w])))
         ELSE Return(w, ErrorResult("KeyError"))
    /\ UNCHANGED <<raw, pages, chunks, mpc, submitted, results, completed_chunks,
                   progress, output, logs, arrival>>
    /\ UNCHANGED calls
    /\ UNCHANGED <<rejected, extractorVars>>

Next ==
    \/ ExtractPage
    \/ StartRun
    \/ Submit
    \/ \E w \in Tasks : Collect(w)
    \/ Merge
    \/ \E w \in Tasks : GetNextApiKeyRead(w)
    \/ \E w \in Tasks : GetNextApiKeyReturn(w)
    \/ \E w \in Tasks : Detect(w)
    \/ \E w \in Tasks : Post(w)
    \/ \E w \in Tasks : Store(w)

Spec == Init /\ [][Next]_vars

\* ---------------------------------------- RejectSpec: every call answers 401
\* The runs of process_document in which the endpoint rejects every credential
\* (each remote call answers 401); the credentials of the calls are recorded.
PostRejected(w) ==
    /\ PostAnswer(w, "401")
    /\ calls' = [calls EXCEPT ![w] = Append(@, api_key[w])]

RejectNext ==
    \/ ExtractPage
    \/ StartRun
    \/ Submit
    \/ \E w \in Tasks : Collect(w)
    \/ Merge
    \/ \E w \in Tasks : GetNextApiKeyRead(w)
    \/ \E w \in Tasks : GetNextApiKeyReturn(w)
    \/ \E w \in Tasks : Detect(w)
    \/ \E w \in Tasks : PostRejected(w)

RejectSpec == Init /\ [][RejectNext]_vars

\* ------------------------------------------------- claims on the credential pool
ValidSet == {k \in 1..Len(api_keys) : ~api_keys[k].invalid}

\* Number of valid credentials in front of credential k, in pool order.
Rank(k) == Cardinality({j \in ValidSet : j < k})

SeqRange(q) == {q[j] : j \in 1..Len(q)}

\* The step of task w is the return of get_next_api_key with a credential.
KeyReturned(w) == wpc[w] = "select" /\ wpc'[w] = "detect"

\* The step of task w is get_next_api_key raising "No valid API keys available.".
KeyRaised(w) ==
    /\ wpc[w] = "select"
    /\ wpc'[w] = "done"
    /\ ret'[w][2].status = "error"
    /\ ret'[w][2].error = "No valid API keys available."

\* C4: get_next_api_key(i) changes no pool state and, when the list it built
\* is the current list of valid credentials, returns the valid credential
\* that has exactly (i mod number of valid credentials) valid credentials in
\* front of it in pool order.
C4_SelectByIndexModValid ==
    [][\A w \in Tasks :
         (wpc[w] = "select" /\ (scan'[w] # scan[w] \/ wpc'[w] # "select")) =>
            /\ api_keys' = api_keys
            /\ (KeyReturned(w) /\ SeqRange(valid_keys[w]) = ValidSet) =>
                  /\ api_key'[w] \in ValidSet
                  /\ Rank(api_key'[w]) = w % Cardinality(ValidSet)]_vars

\* Chunk 1 holds a credential selected from a pool in which a credential is
\* invalid and at least two are valid.
C4_Witness ==
    /\ wpc[1] = "detect"
    /\ InvalidSet # {}
    /\ Cardinality(ValidSet) >= 2
    /\ api_key[1] \in ValidSet
    /\ Rank(api_key[1]) = 1

\* C5: a get_next_api_key call never returns a credential that was already
\* invalid when the call began, and a call that began with every credential
\* invalid raises the no-valid-credentials error.
C5_InvalidNeverSelected ==
    [][\A w \in Tasks :
         (wpc[w] = "select" /\ scan[w] = Len(api_keys) /\ wpc'[w] # "select") =>
            /\ KeyReturned(w) => api_key'[w] \notin entry[w]
            /\ entry[w] = 1..Len(api_keys) => KeyRaised(w)]_vars

\* A call that began after credential 1 was marked invalid is about to return
\* from a list without it.
C5_Witness ==
    \E w \in Tasks :
        /\ wpc[w] = "select"
        /\ scan[w] = Len(api_keys)
        /\ 1 \in entry[w]
        /\ valid_keys[w] # <<>>

\* --------------------------------------------------- claims on process_chunk
Finished(w) == wpc[w] \in {"done", "collected", "raised"}

\* Task w ended on the no-valid-credentials error of get_next_api_key.
Exhausted(w) ==
    /\ wpc[w] \in {"done", "collected"}
    /\ ret[w][2].status = "error"
    /\ ret[w][2].error = "No valid API keys available."

\* Task w ended on the exception of the language detector.
DetectionFailed(w) ==
    /\ wpc[w] \in {"done", "collected"}
    /\ ret[w][2].status = "error"
    /\ ret[w][2].error = "LangDetectException"

NoDuplicates(q) == \A i, j \in 1..Len(q) : i # j => q[i] # q[j]

\* C6: when every remote call answers 401, a chunk's process_chunk makes at
\* most as many remote calls as there are credentials, never uses a
\* credential twice, and ends by raising NoValidCredentials.
C6_RejectedChunkRaises ==
    \A w \in Tasks :
        /\ Len(calls[w]) <= Len(api_keys)
        /\ NoDuplicates(calls[w])
        /\ (Finished(w) /\ ~DetectionFailed(w)) => wpc[w] = "raised"

\* What does hold of the code in those runs: the bound on the calls, and the
\* chunk ending with an error result that carries the message.
RejectedChunkReturnsError ==
    \A w \in Tasks :
        /\ Len(calls[w]) <= Len(api_keys)
        /\ NoDuplicates(calls[w])
        /\ (Finished(w) /\ ~DetectionFailed(w)) => Exhausted(w)

\* C10: a failure of language detection never ends the chunk: no chunk
\* result is the error of the detector.
C10_DetectionFailureAbsorbed ==
    \A w \in Tasks : ~DetectionFailed(w)

\* ------------------------------------------------ claims on process_document
NumberOfChunks == Len(chunks.value)

ChunkIndices == 0 .. (NumberOfChunks - 1)

Succeeded == {i \in ChunkIndices : results[i].status = "success"}

\* Positions of the section headers of a merged document.
Headers(doc) == {p \in 1..Len(doc) : doc[p] = HDR}

\* End of the section whose header is at p: the next separator, or the end.
SectionEnd(doc, p) ==
    LET seps == {q \in (p + 1)..Len(doc) : doc[q] = SEP}
    IN  IF seps = {} THEN Len(doc) + 1
        ELSE CHOOSE q \in seps : \A r \in seps : q <= r

\* Text of the section whose header is at p (after "=== Chunk k ===\n").
SectionText(doc, p) == SubSeq(doc, p + 3, SectionEnd(doc, p) - 1)

\* doc holds exactly the sections of the successful chunks, in ascending
\* chunk order, each under its label i + 1 and with that chunk's text.
MergedExactly(doc, field) ==
    /\ Cardinality(Headers(doc)) = Cardinality(Succeeded)
    /\ \A p \in Headers(doc) :
          /\ doc[p + 1] - 1 \in Succeeded
          /\ doc[p + 2] = NL
          /\ SectionText(doc, p) = results[doc[p + 1] - 1][field]
          /\ p = 1 \/ doc[p - 1] = SEP
    /\ \A p, q \in Headers(doc) : p < q => doc[p + 1] < doc[q + 1]
    /\ (Succeeded = {}) <=> (doc = <<>>)

\* C7: whatever the order of completion, the merged documents hold exactly
\* the sections of the chunks with status success, in ascending chunk order,
\* each under its own label and with its own text; failed chunks add nothing.
C7_MergeInChunkOrder ==
    (mpc = "done" /\ chunks.kind = "return") =>
        /\ output.kind = "dict"
        /\ MergedExactly(output.original, "original")
        /\ MergedExactly(output.translated, "translated")
        /\ \A i \in Succeeded :
              results[i].original = CombinedText(chunks.value[i + 1])

\* Three chunks, collected in reverse order, chunk 1 failed: the merged
\* document holds the sections of chunks 0 and 2.
C7_Witness ==
    /\ mpc = "done"
    /\ arrival = <<2, 1, 0>>
    /\ Succeeded = {0, 2}
    /\ output.kind = "dict"
    /\ Cardinality(Headers(output.original)) = 2

\* C8: the chunk indices dispatched are 0..numChunks-1, each submitted once,
\* and when aggregation starts results holds, for every index, the one result
\* the task dispatched with that index returned.
C8_OneResultPerIndex ==
    /\ chunks.kind = "return" =>
          /\ submitted <= NumberOfChunks
          /\ {w \in Tasks : wpc[w] # "idle"} = 0 .. (submitted - 1)
          /\ Len(arrival) = completed_chunks
          /\ NoDuplicates(arrival)
          /\ SeqRange(arrival) = DOMAIN results
    /\ (chunks.kind = "return" /\
        (mpc = "done" \/ (mpc = "collect" /\ \A w \in ChunkIndices : wpc[w] = "collected"))) =>
          /\ submitted = NumberOfChunks
          /\ DOMAIN results = ChunkIndices
          /\ completed_chunks = NumberOfChunks
          /\ \A i \in ChunkIndices :
                /\ ret[i][1] = i
                /\ results[i] = ret[i][2]
                /\ results[i].status \in {"success", "error"}

\* Aggregation is about to start for three chunks of which one failed.
C8_Witness ==
    /\ mpc = "collect"
    /\ NumberOfChunks = 3
    /\ \A w \in ChunkIndices : wpc[w] = "collected"
    /\ \E i \in ChunkIndices : results[i].status = "error"
    /\ \E i \in ChunkIndices : results[i].status = "success"

\* C9: process_document yields no result exactly when extraction yielded no
\* page or the run hit the no-valid-credentials error.
C9_GlobalFailureCases ==
    mpc = "done" =>
        ((output.kind = "None") <=> (pages = <<>> \/ \E w \in Tasks : Exhausted(w)))

\* --------------------------------------------- claims on the HTTP handlers
\* Task w ended with the Failed result that process_chunk builds from error e.
FailedWith(w, e) ==
    /\ wpc[w] \in {"done", "collected"}
    /\ ret[w][2].status = "error"
    /\ ret[w][2].error = e

\* C11: an answer 401 or 403 makes process_chunk mark the credential invalid
\* and retry the chunk, so no chunk ends with the Failed result of a 401 or
\* of a 403; only the other HTTP statuses end the chunk without a retry.
C11_AuthAnswerInvalidatesAndRetries ==
    \A w \in Tasks : ~FailedWith(w, "401") /\ ~FailedWith(w, "403")

\* What the handlers do for 401: the chunk never ends on it.
UnauthorizedNeverEndsChunk ==
    \A w \in Tasks : ~FailedWith(w, "401")

\* ==================================================== src/main2.py
\* The main thread, the pool and the tasks of src/main.py take no part in the
\* calls of a MetadataExtractor.
NoRun ==
    /\ raw = <<>>
    /\ pages = <<>>
    /\ api_keys = <<>>
    /\ chunks = [kind |-> "none", value |-> <<>>]
    /\ mpc = "none"
    /\ submitted = 0
    /\ results = <<>>
    /\ completed_chunks = 0
    /\ progress = <<>>
    /\ output = [kind |-> "none"]
    /\ logs = <<>>
    /\ arrival = <<>>
    /\ IdleTasks
    /\ rejected = {}

\* ------------------------------------ RequestSpec: one _make_api_request call
\* What requests.post, raise_for_status and response.json() can do: an HTTP
\* status or a transport failure; all but "200" reach the except clause as a
\* RequestException and leave the function as APIError.
Responses == {"200", "401", "403", "500", "Timeout"}

\* _get_next_api_key: (self.current_key_index + 1) % len(self.api_keys)
NextKeyIndex(index, nkeys) == (index + 1) % nkeys

\* The retry decorator after an attempt: the value is returned; an exception
\* (no retry= argument: any exception) is retried until stop_after_attempt,
\* and then RetryError is raised.
AfterAttempt(a, attempt_number) ==
    IF a = "200" THEN "return"
    ELSE IF attempt_number >= stop_after_attempt THEN "RetryError"
    ELSE "pending"

\* A call of _make_api_request begins on an extractor with 1..MaxKeys keys
\* whose rotation index is anywhere.
RequestInit ==
    /\ NoRun
    /\ \E n \in 1..MaxKeys :
          /\ extractor_keys = n
          /\ \E i \in 0..(n - 1) : current_key_index = i
    /\ attempts = <<>>
    /\ request = "pending"
    /\ text_in = <<>>
    /\ text_chunk_size = 0
    /\ text_chunks = [kind |-> "none", value |-> <<>>]

\* one execution of the body of _make_api_request under the retry decorator
Attempt ==
    /\ request = "pending"
    /\ \E a \in Responses :
         LET key == NextKeyIndex(current_key_index, extractor_keys)
         IN  /\ current_key_index' = key
             /\ attempts' = Append(attempts, [key |-> key, answer |-> a])
             /\ request' = AfterAttempt(a, Len(attempts) + 1)
    /\ UNCHANGED <<text_in, text_chunk_size, text_chunks, extractor_keys>>
    /\ UNCHANGED <<mainVars, taskVars, rejected>>

RequestNext == Attempt

RequestSpec == RequestInit /\ [][RequestNext]_vars

\* The answers that are authentication errors.
AuthAnswers == {"401", "403"}

\* C12: one call of _make_api_request makes at most 3 attempts, no attempt
\* follows a successful one, and no attempt follows an authentication error
\* (only transient HTTP errors and transport failures are retried; an
\* authentication error ends the call after exactly one attempt).
C12_RetriesOnlyTransientFailures ==
    /\ Len(attempts) <= stop_after_attempt
    /\ \A j \in 1..Len(attempts) :
          attempts[j].answer \in ({"200"} \cup AuthAnswers) =>
              /\ j = Len(attempts)
              /\ request # "pending"

\* What does hold of the retry decorator: at most 3 attempts, every failure
\* retried, the first success returned, each attempt on the next key.
EveryFailureRetried ==
    /\ Len(attempts) <= stop_after_attempt
    /\ \A j \in 1..Len(attempts) :
          /\ attempts[j].answer = "200" => (j = Len(attempts) /\ request = "return")
          /\ j > 1 => attempts[j].key = NextKeyIndex(attempts[j - 1].key, extractor_keys)
    /\ request = "return" <=>
          (attempts # <<>> /\ attempts[Len(attempts)].answer = "200")
    /\ request = "RetryError" <=>
          (Len(attempts) = stop_after_attempt /\ attempts[Len(attempts)].answer # "200")

\* ----------------------------------------- TextSpec: _chunk_text on its own
\* A text is a sequence of characters: SP is a whitespace character, the
\* members of Letters are the other characters.
SP == 0
Letters == {1, 2}
Texts == UNION {[1..n -> {SP} \cup Letters] : n \in 0..MaxTextLen}

\* str.split(): the maximal runs of non-whitespace characters, in order
RECURSIVE SplitLoop(_, _, _)
SplitLoop(t, word, acc) ==
    IF t = <<>> THEN (IF word # <<>> THEN Append(acc, word) ELSE acc)
    ELSE IF Head(t) = SP
         THEN SplitLoop(Tail(t), <<>>, IF word # <<>> THEN Append(acc, word) ELSE acc)
         ELSE SplitLoop(Tail(t), Append(word, Head(t)), acc)

split(t) == SplitLoop(t, <<>>, <<>>)

\* ' '.join(words)
JoinSpace(words) == Join(<<SP>>, words)

\* Faulty variant of WordLength: the length of the word without the space
WordLengthNoSpace(word) == Len(word)

\* word_length = len(word) + 1  # Add 1 for space
WordLength(word) == Len(word) + 1

\* Faulty variant of StartChunk: the new piece begun without the word
StartChunkEmpty(word) == <<>>

\* current_chunk = [word]
StartChunk(word) == <<word>>

\* "for word in words" from the given loop state on, then the final append
RECURSIVE ChunkTextLoop(_, _, _, _, _)
ChunkTextLoop(words, acc, current_chunk, current_length, size) ==
    IF words = <<>>
    THEN (IF current_chunk # <<>> THEN Append(acc, JoinSpace(current_chunk)) ELSE acc)
    ELSE LET word == Head(words)
             word_length == WordLength(word)
         IN  IF current_length + word_length > size
             THEN ChunkTextLoop(Tail(words), Append(acc, JoinSpace(current_chunk)),
                                StartChunk(word), word_length, size)
             ELSE ChunkTextLoop(Tail(words), acc, Append(current_chunk, word),
                                current_length + word_length, size)

chunk_text(t, size) == ChunkTextLoop(split(t), <<>>, <<>>, 0, size)

\* _chunk_text is about to be called on any text of up to MaxTextLen
\* characters with a budget of 1..MaxBudget characters.
TextInit ==
    /\ NoRun
    /\ text_in \in Texts
    /\ text_chunk_size \in 1..MaxBudget
    /\ text_chunks = [kind |-> "none", value |-> <<>>]
    /\ extractor_keys = 0
    /\ current_key_index = 0
    /\ attempts = <<>>
    /\ request = "idle"

CallChunkText ==
    /\ text_chunks.kind = "none"
    /\ text_chunks' = [kind |-> "return", value |-> chunk_text(text_in, text_chunk_size)]
    /\ UNCHANGED <<text_in, text_chunk_size, extractor_keys, current_key_index,
                   attempts, request>>
    /\ UNCHANGED <<mainVars, taskVars, rejected>>

TextNext == CallChunkText

TextSpec == TextInit /\ [][TextNext]_vars

\* Piece p is the ' '.join of a run of consecutive words of ws.
WholeWords(p, ws) ==
    \E a \in 1..(Len(ws) + 1), b \in 0..Len(ws) : p = JoinSpace(SubSeq(ws, a, b))

C15_OneLogEntryPerChunk ==
    (mpc = "done" /\ chunks.kind = "return") =>
        /\ Len(logs) = NumberOfChunks
        /\ \A j \in 1..Len(logs) : logs[j].chunk_id = arrival[j]

\* Sum of used_tokens over the first n credentials of the pool.
RECURSIVE UsedUpTo(_)
UsedUpTo(n) == IF n = 0 THEN 0 ELSE api_keys[n].used_tokens + UsedUpTo(n - 1)

UsedTotal == UsedUpTo(Len(api_keys))

\* No task is running: each is not yet submitted or has returned.
Quiescent == \A w \in Tasks : wpc[w] \in {"idle", "done", "collected"}

\* The tasks that returned a Success result.
SucceededTasks ==
    {w \in Tasks : wpc[w] \in {"done", "collected"} /\ ret[w][2].status = "success"}

\* The tasks that executed "api_key.used_tokens += 1" (each exactly once):
\* those whose call was answered 200, whatever the body then was.
Incremented == SucceededTasks \cup {w \in Tasks : FailedWith(w, "KeyError")}

\* C16: for every interleaving, when all tasks have finished the used_tokens
\* of the pool account for every increment performed (none is lost to a
\* concurrent read-modify-write), and the invalid flags are exactly those
\* that some task set.
C16_NoLostIncrement ==
    Quiescent =>
        /\ UsedTotal = Cardinality(Incremented)
        /\ InvalidSet = rejected

\* C17: used_tokens is incremented by one exactly for the calls that lead to
\* a Success result: when no task is running, the used_tokens of the pool
\* add up to the number of Success results, and Failed chunks (a 2xx answer
\* with a malformed body included) have added nothing.
C17_IncrementOnlyOnSuccess ==
    Quiescent => UsedTotal = Cardinality(SucceededTasks)

\* C18: in the as_completed loop the fraction passed to the progress bar
\* after the j-th completion is j / (number of chunks); one value is emitted
\* per completed chunk, each greater than the one before, and when the run
\* has finished one value per chunk has been emitted, the last being 1.
\* (A fraction is the pair <<numerator, denominator>>.)
C18_ProgressPerCompletion ==
    chunks.kind = "return" =>
        /\ Len(progress) = completed_chunks
        /\ Len(progress) = Len(arrival)
        /\ \A j \in 1..Len(progress) : progress[j] = <<j, NumberOfChunks>>
        /\ \A j \in 1..(Len(progress) - 1) :
              progress[j][1] * progress[j + 1][2] < progress[j + 1][1] * progress[j][2]
        /\ mpc = "done" =>
              /\ Len(progress) = NumberOfChunks
              /\ progress[Len(progress)][1] = progress[Len(progress)][2]

\* A run of three chunks has finished, the chunks having completed out of
\* index order.
C18_Witness ==
    /\ mpc = "done"
    /\ NumberOfChunks = 3
    /\ arrival = <<1, 2, 0>>
    /\ Len(progress) = 3

\* C19: a credential's invalid flag is true only if a remote call made with
\* that very credential answered 401 (so a credential that never received a
\* 401 stays valid whatever the other chunks do), and a flag that is true
\* never becomes false again.
C19_InvalidOnlyAfter401 ==
    /\ [](InvalidSet \subseteq rejected)
    /\ [][InvalidSet \subseteq InvalidSet']_vars

\* One credential has been invalidated while another, whose call answered
\* 403 to some chunk, is still valid.
C19_Witness ==
    /\ InvalidSet # {}
    /\ ValidSet # {}
    /\ \E w \in Tasks : FailedWith(w, "403")

\* C20: while no credential of the pool is marked invalid, the chunk count
\* does not exceed the pool size and chunk i holds credential i mod pool
\* size, so the credentials assigned to different chunks are pairwise
\* distinct; two chunks holding the same credential imply an invalidation.
C20_DistinctWhileAllValid ==
    (chunks.kind = "return" /\ InvalidSet = {}) =>
        /\ NumberOfChunks <= Len(api_keys)
        /\ \A w \in Tasks :
              api_key[w] # 0 => api_key[w] = (w % Len(api_keys)) + 1
        /\ \A v, w \in Tasks :
              (v # w /\ api_key[v] # 0 /\ api_key[w] # 0) => api_key[v] # api_key[w]

\* Three chunks hold the three credentials of a pool with no invalid one.
C20_Witness ==
    /\ InvalidSet = {}
    /\ NumberOfChunks = 3
    /\ \A w \in ChunkIndices : api_key[w] = w + 1

\* After an invalidation two chunks can hold the same credential.
SharedAfterInvalidation ==
    /\ InvalidSet # {}
    /\ \E v, w \in Tasks : v # w /\ api_key[v] # 0 /\ api_key[v] = api_key[w]

====
